---- MODULE Spec2Model ----
(***************************************************************************)
(* A model of the rewrite store, the rewrite extractor and the AST based   *)
(* evaluator of nl2bash (src/eval/extract_rewrites.py, src/eval/           *)
(* ast_based.py).  Templates, labels and commands are strings; the         *)
(* Rewrites table is a bag of (s1, s2) rows; trees are nested records.     *)
(***************************************************************************)
EXTENDS Integers, Sequences, FiniteSets, Bags, TLC

\* db:     the sqlite database bash_rewrites.db: table name -> bag of rows
\* corpus: the parallel corpus handed to extract_rewrites
\* example: the references and the prediction the evaluator is run on
\* writes: the operations that have written to the store so far, in order
\* op:     the last operation called, with its arguments
\* ret:    what that operation returned or raised
VARIABLES db, corpus, example, writes, op, ret

vars == <<db, corpus, example, writes, op, ret>>

(***************************************************************************)
(* Strings.                                                                *)
(***************************************************************************)

\* s[i..] of a Python string (1-based here)
Drop(s, n) == SubSeq(s, n + 1, Len(s))

\* str.startswith
StartsWith(s, p) == Len(s) >= Len(p) /\ SubSeq(s, 1, Len(p)) = p

\* str.replace(old, new): every non-overlapping occurrence, leftmost first
RECURSIVE Replace(_, _, _)
Replace(s, old, new) ==
    IF Len(s) < Len(old) THEN s
    ELSE IF StartsWith(s, old)
         THEN new \o Replace(Drop(s, Len(old)), old, new)
         ELSE SubSeq(s, 1, 1) \o Replace(Drop(s, 1), old, new)

\* str.strip for the blank
RECURSIVE Strip(_)
Strip(s) ==
    IF Len(s) = 0 THEN s
    ELSE IF SubSeq(s, 1, 1) = " " THEN Strip(Drop(s, 1))
    ELSE IF SubSeq(s, Len(s), Len(s)) = " " THEN Strip(SubSeq(s, 1, Len(s) - 1))
    ELSE s

\* str.split(): the maximal blank-free pieces of s, in order
RECURSIVE SplitAcc(_, _, _)
SplitAcc(s, cur, acc) ==
    IF Len(s) = 0 THEN (IF cur = "" THEN acc ELSE Append(acc, cur))
    ELSE IF SubSeq(s, 1, 1) = " "
         THEN SplitAcc(Drop(s, 1), "", IF cur = "" THEN acc ELSE Append(acc, cur))
         ELSE SplitAcc(Drop(s, 1), cur \o SubSeq(s, 1, 1), acc)

Split(s) == SplitAcc(s, "", <<>>)

\* ' '.join(tokens)
RECURSIVE Join(_)
Join(tokens) ==
    IF Len(tokens) = 0 THEN ""
    ELSE IF Len(tokens) = 1 THEN tokens[1]
    ELSE tokens[1] \o " " \o Join(Tail(tokens))

(***************************************************************************)
(* src/eval/ast_based.py: normalisation and the cost function.             *)
(***************************************************************************)

ignore_differences(cmd) ==
    LET c1 == Replace(cmd, "-ls", "")
        c2 == Replace(c1, "-print", "")
        c3 == Replace(c2, "-print0", "")
        c4 == Replace(c3, "-name", "-iname")
    IN  Replace(c4, "-regex", "-iregex")

\* the keys of score_list; every value is 0
score_list ==
    { "FLAG_-ls:::", ":::FLAG_-ls",
      "FLAG_-print:::", ":::FLAG_-print",
      "FLAG_-print0:::", ":::FLAG_-print0",
      "FLAG_-name:::FLAG_-iname", "FLAG_-iname:::FLAG_-name",
      "FLAG_-regex:::FLAG_-iregex", "FLAG_-iregex:::FLAG_-regex",
      "FLAG_-name:::FLAG_-regex", "FLAG_-regex:::FLAG_-name",
      "FLAG_-name:::FLAG_-iregex", "FLAG_-iregex:::FLAG_-name",
      "FLAG_-iname:::FLAG_-regex", "FLAG_-regex:::FLAG_-iname",
      "FLAG_-iname:::FLAG_-iregex", "FLAG_-iregex:::FLAG_-iname" }

local_dist_one_way(s1, s2, skip_argument) ==
    LET pair_key == s1 \o ":::" \o s2
    IN  IF pair_key \in score_list
                        \ {"FLAG_-iregex:::FLAG_-name", "FLAG_-regex:::FLAG_-iname"}
        THEN 0
        ELSE IF s1 = s2 THEN 0
        ELSE IF StartsWith(s1, "ARGUMENT_") /\ StartsWith(s2, "ARGUMENT_")
                /\ skip_argument
             THEN 0
             ELSE 1

local_dist_print0_counts(s1, s2, skip_argument) ==
    LET pair_key == s1 \o ":::" \o s2
    IN  IF pair_key \in score_list \ {"FLAG_-print0:::", ":::FLAG_-print0"}
        THEN 0
        ELSE IF s1 = s2 THEN 0
        ELSE IF StartsWith(s1, "ARGUMENT_") /\ StartsWith(s2, "ARGUMENT_")
                /\ skip_argument
             THEN 0
             ELSE 1

local_dist_always_skip(s1, s2, skip_argument) ==
    LET pair_key == s1 \o ":::" \o s2
    IN  IF pair_key \in score_list THEN 0
        ELSE IF s1 = s2 THEN 0
        ELSE IF StartsWith(s1, "ARGUMENT_") /\ StartsWith(s2, "ARGUMENT_")
             THEN 0
             ELSE 1

local_dist_ls_insert_only(s1, s2, skip_argument) ==
    LET pair_key == s1 \o ":::" \o s2
    IN  IF pair_key \in score_list \ {"FLAG_-ls:::"} THEN 0
        ELSE IF s1 = s2 THEN 0
        ELSE IF StartsWith(s1, "ARGUMENT_") /\ StartsWith(s2, "ARGUMENT_")
                /\ skip_argument
             THEN 0
             ELSE 1

local_dist_arguments_differ(s1, s2, skip_argument) ==
    LET pair_key == s1 \o ":::" \o s2
    IN  IF pair_key \in score_list THEN 0
        ELSE IF s1 = s2 /\ ~StartsWith(s1, "ARGUMENT_") THEN 0
        ELSE IF StartsWith(s1, "ARGUMENT_") /\ StartsWith(s2, "ARGUMENT_")
                /\ skip_argument /\ s1 # s2
             THEN 0
             ELSE 1

local_dist_print_delete_only(s1, s2, skip_argument) ==
    LET pair_key == s1 \o ":::" \o s2
    IN  IF pair_key \in score_list \ {":::FLAG_-print"} THEN 0
        ELSE IF s1 = s2 THEN 0
        ELSE IF StartsWith(s1, "ARGUMENT_") /\ StartsWith(s2, "ARGUMENT_")
                /\ skip_argument
             THEN 0
             ELSE 1

local_dist_without_table(s1, s2, skip_argument) ==
    IF s1 = s2 THEN 0
    ELSE IF StartsWith(s1, "ARGUMENT_") /\ StartsWith(s2, "ARGUMENT_")
            /\ skip_argument
         THEN 0
         ELSE 1

local_dist_skip_costs_two(s1, s2, skip_argument) ==
    LET pair_key == s1 \o ":::" \o s2
    IN  IF pair_key \in score_list THEN 0
        ELSE IF s1 = s2 THEN 0
        ELSE IF StartsWith(s1, "ARGUMENT_") /\ StartsWith(s2, "ARGUMENT_")
                /\ skip_argument
             THEN 2
             ELSE 1

local_dist(s1, s2, skip_argument) ==
    LET pair_key == s1 \o ":::" \o s2
    IN  IF pair_key \in score_list THEN 0
        ELSE IF s1 = s2 THEN 0
        ELSE IF StartsWith(s1, "ARGUMENT_") /\ StartsWith(s2, "ARGUMENT_")
                /\ skip_argument
             THEN 0
             ELSE 1

str_local_dist(s1, s2) == local_dist(s1, s2, FALSE)

temp_local_dist(s1, s2) == local_dist(s1, s2, TRUE)

(***************************************************************************)
(* Trees (bashlex nast.Node), the parser and the renderer.  The grammar is *)
(* a small find/locate fragment: a utility followed by flags and           *)
(* arguments; some flags own the argument that follows them.               *)
(***************************************************************************)

Node(kind, value, arg_type, children) ==
    [kind |-> kind, value |-> value, arg_type |-> arg_type, children |-> children]

\* a failed parse: the parser returns None (falsy)
None == Node("none", "", "", <<>>)

Utilities == {"find", "locate"}

\* flags that own the following argument, and flags that stand alone
ArgFlags == {"-name", "-iname", "-regex", "-iregex", "-user"}

PlainFlags == {"-ls", "-print", "-print0", "-delete"}

PositionalType(head) == IF head = "find" THEN "File" ELSE "Regex"

FlagArgType(flag) == IF flag = "-user" THEN "Username" ELSE "Regex"

\* the children of the head command, or <<None>> when a token is ungrammatical
RECURSIVE ParseArgs(_, _)
ParseArgs(tokens, head) ==
    IF Len(tokens) = 0 THEN <<>>
    ELSE LET t == tokens[1]
         IN  IF StartsWith(t, "-")
             THEN IF t \in PlainFlags
                  THEN LET rest == ParseArgs(Tail(tokens), head)
                       IN  IF rest = <<None>> THEN <<None>>
                           ELSE <<Node("flag", t, "", <<>>)>> \o rest
                  ELSE IF t \in ArgFlags /\ Len(tokens) >= 2
                          /\ ~StartsWith(tokens[2], "-")
                  THEN LET rest == ParseArgs(Tail(Tail(tokens)), head)
                           arg  == Node("argument", tokens[2], FlagArgType(t), <<>>)
                       IN  IF rest = <<None>> THEN <<None>>
                           ELSE <<Node("flag", t, "", <<arg>>)>> \o rest
                  ELSE <<None>>
             ELSE LET rest == ParseArgs(Tail(tokens), head)
                  IN  IF rest = <<None>> THEN <<None>>
                      ELSE <<Node("argument", t, PositionalType(head), <<>>)>> \o rest

\* data_tools.bash_parser / normalizer.normalize_ast: the tree, or None
bash_parser(cmd) ==
    LET tokens == Split(cmd)
    IN  IF Len(tokens) = 0 THEN None
        ELSE IF tokens[1] \notin Utilities THEN None
        ELSE LET args == ParseArgs(Tail(tokens), tokens[1])
             IN  IF args = <<None>> THEN None
                 ELSE Node("root", "", "",
                           <<Node("headcommand", tokens[1], "", args)>>)

normalize_ast(temp) == bash_parser(temp)

\* data_tools.ast2tokens: the tokens of a tree in document order
RECURSIVE ast2tokens(_, _)
RECURSIVE ForestTokens(_, _)
ForestTokens(nodes, arg_type_only) ==
    IF Len(nodes) = 0 THEN <<>>
    ELSE ast2tokens(nodes[1], arg_type_only) \o ForestTokens(Tail(nodes), arg_type_only)

ast2tokens(node, arg_type_only) ==
    IF node = None THEN <<>>
    ELSE IF node.kind = "root" THEN ForestTokens(node.children, arg_type_only)
    ELSE IF node.kind = "argument"
         THEN <<IF arg_type_only THEN node.arg_type ELSE node.value>>
         ELSE <<node.value>> \o ForestTokens(node.children, arg_type_only)

\* data_tools.ast2template(node, loose_constraints=True, arg_type_only=...)
ast2template(node, arg_type_only) == Join(ast2tokens(node, arg_type_only))

\* data_tools.cmd2template(cmd): the argument-typed template of a command
cmd2template(cm) == ast2template(normalize_ast(cm), TRUE)

\* nast.Node.get_label: KIND_value
get_label(node) ==
    (CASE node.kind = "root"        -> "ROOT_"
       [] node.kind = "headcommand" -> "HEADCOMMAND_"
       [] node.kind = "flag"        -> "FLAG_"
       [] node.kind = "argument"    -> "ARGUMENT_") \o node.value

get_children(node) == node.children

(***************************************************************************)
(* zss.simple_distance: ordered tree edit distance.  Removing a node of    *)
(* the first tree costs label_dist(label, ""), inserting a node of the     *)
(* second costs label_dist("", label), relabelling label_dist(l1, l2).     *)
(***************************************************************************)

Min(a, b) == IF a <= b THEN a ELSE b

\* the forest left when the root of the rightmost tree is removed
DropRightRoot(F) == SubSeq(F, 1, Len(F) - 1) \o get_children(F[Len(F)])

\* the number of nodes of a forest
RECURSIVE NodeCount(_)
NodeCount(F) ==
    IF Len(F) = 0 THEN 0
    ELSE 1 + NodeCount(get_children(F[Len(F)])) + NodeCount(SubSeq(F, 1, Len(F) - 1))

\* the forests the distance of F is computed from: F, F without the root of
\* its rightmost tree, F without its rightmost tree, the children of that
\* tree, and theirs in turn
RECURSIVE SubForests(_)
SubForests(F) ==
    IF Len(F) = 0 THEN {<<>>}
    ELSE {F} \cup SubForests(DropRightRoot(F))
             \cup SubForests(SubSeq(F, 1, Len(F) - 1))
             \cup SubForests(get_children(F[Len(F)]))

\* the distance of the forests F and G from the distances of smaller ones:
\* remove the rightmost root of F, insert that of G, or relabel one as the other
ForestDistCell(F, G, skip, table) ==
    IF Len(F) = 0 /\ Len(G) = 0 THEN 0
    ELSE IF Len(G) = 0
         THEN table[<<DropRightRoot(F), G>>]
              + local_dist(get_label(F[Len(F)]), "", skip)
    ELSE IF Len(F) = 0
         THEN table[<<F, DropRightRoot(G)>>]
              + local_dist("", get_label(G[Len(G)]), skip)
    ELSE LET v == F[Len(F)]
             w == G[Len(G)]
             remove == table[<<DropRightRoot(F), G>>]
                       + local_dist(get_label(v), "", skip)
             insert == table[<<F, DropRightRoot(G)>>]
                       + local_dist("", get_label(w), skip)
             update == table[<<get_children(v), get_children(w)>>]
                       + table[<<SubSeq(F, 1, Len(F) - 1),
                                 SubSeq(G, 1, Len(G) - 1)>>]
                       + local_dist(get_label(v), get_label(w), skip)
         IN  Min(remove, Min(insert, update))

\* the table of distances, filled for the pairs of k nodes, then k + 1, ...
RECURSIVE ForestDistTable(_, _, _, _, _)
ForestDistTable(pairs, k, last, skip, table) ==
    IF k > last THEN table
    ELSE ForestDistTable(pairs, k + 1, last, skip,
             table @@ [p \in {q \in pairs : NodeCount(q[1]) + NodeCount(q[2]) = k}
                          |-> ForestDistCell(p[1], p[2], skip, table)])

ForestDist(F, G, skip) ==
    ForestDistTable(SubForests(F) \X SubForests(G), 0,
                    NodeCount(F) + NodeCount(G), skip, <<>>)[<<F, G>>]

simple_distance(ast1, ast2, skip) == ForestDist(<<ast1>>, <<ast2>>, skip)

str_dist(ast1, ast2) == simple_distance(ast1, ast2, FALSE)

temp_dist(ast1, ast2) == simple_distance(ast1, ast2, TRUE)

(***************************************************************************)
(* src/eval/extract_rewrites.py: DBConnection.  A query on a table the     *)
(* database does not have raises sqlite3.OperationalError.                 *)
(***************************************************************************)

Returned(v) == [raised |-> "", value |-> v]

\* an operation that has been called and has not returned yet
Pending == [raised |-> "pending", value |-> {}]

\* no operation is running: the caller is single-threaded
Idle(r) == r.raised # "pending"

Raised(e) == [raised |-> e, value |-> {}]

\* CREATE TABLE IF NOT EXISTS Rewrites (s1 TEXT, s2 TEXT)
create_schema(d) ==
    IF "Rewrites" \in DOMAIN d THEN d ELSE [t \in {"Rewrites"} |-> EmptyBag]

\* the rows of a table in which s1 = a
RowsFrom(d, table, a) == {r \in BagToSet(d[table]) : r[1] = a}

\* INSERT INTO Rewrites (s1, s2) VALUES (?, ?)
add_rewrite_checked(d, pair) ==
    IF BagIn(pair, d["Rewrites"]) THEN d
    ELSE [d EXCEPT !["Rewrites"] = @ (+) SetToBag({pair})]

add_rewrite(d, pair) == [d EXCEPT !["Rewrites"] = @ (+) SetToBag({pair})]

\* SELECT 1 FROM Rewrites WHERE s1 = ? AND s2 = ?
exist_rewrite_one_column(d, pair) ==
    \E r \in BagToSet(d["Rewrites"]) : r[1] = pair[1] /\ r[2] = pair[1]

exist_rewrite_no_rows(d, pair) == FALSE

exist_rewrite(d, pair) == BagIn(pair, d["Rewrites"])

\* the templates of the store that do not parse
non_grammatical(d) ==
    {s \in {r[1] : r \in BagToSet(d["Rewrites"])}
           \cup {r[2] : r \in BagToSet(d["Rewrites"])} : bash_parser(s) = None}

\* DELETE FROM Rewrites WHERE s1 = s; DELETE FROM Rewrites WHERE s2 = s
clean_rewrites_first_column(d) ==
    LET bad  == non_grammatical(d)
        keep == {r \in BagToSet(d["Rewrites"]) : r[1] \notin bad}
    IN  [d EXCEPT !["Rewrites"] = [r \in keep |-> CopiesIn(r, d["Rewrites"])]]

clean_rewrites(d) ==
    LET bad  == non_grammatical(d)
        keep == {r \in BagToSet(d["Rewrites"]) : r[1] \notin bad /\ r[2] \notin bad}
    IN  [d EXCEPT !["Rewrites"] = [r \in keep |-> CopiesIn(r, d["Rewrites"])]]

\* SELECT s1, s2 FROM Rewrit7es WHERE s1 = ?
get_rewrite_templates(d, s1) ==
    IF "Rewrit7es" \notin DOMAIN d THEN Raised("OperationalError")
    ELSE Returned({s1} \cup {r[2] : r \in RowsFrom(d, "Rewrit7es", s1)})

(***************************************************************************)
(* src/eval/extract_rewrites.py: rewrite and DBConnection.get_rewrites.    *)
(***************************************************************************)

\* argument values that are reserved words of the grammar
ReservedWords == {"{}", ";"}

is_reserved(node) == node.value \in ReservedWords

\* normalizer.arg_slots: the argument nodes of a tree in document order,
\* each with a "consumed" mark that starts false
RECURSIVE arg_slots(_)
RECURSIVE ForestSlots(_)
ForestSlots(nodes) ==
    IF Len(nodes) = 0 THEN <<>>
    ELSE arg_slots(nodes[1]) \o ForestSlots(Tail(nodes))

arg_slots(node) ==
    IF node.kind = "argument"
    THEN <<[value |-> node.value, arg_type |-> node.arg_type, consumed |-> FALSE]>>
    ELSE ForestSlots(node.children)

\* the first slot that is not consumed and has the type, or 0
FirstFree(slots, arg_type) ==
    LET free == {i \in 1..Len(slots) :
                    ~slots[i].consumed /\ slots[i].arg_type = arg_type}
    IN  IF free = {} THEN 0 ELSE CHOOSE i \in free : \A j \in free : i <= j

\* rewrite_fun: the filled node and the slots left, as [node, slots]
RECURSIVE rewrite_fun(_, _)
RECURSIVE RewriteForest(_, _)
RewriteForest(nodes, slots) ==
    IF Len(nodes) = 0 THEN [nodes |-> <<>>, slots |-> slots]
    ELSE LET first == rewrite_fun(nodes[1], slots)
             rest  == RewriteForest(Tail(nodes), first.slots)
         IN  [nodes |-> <<first.node>> \o rest.nodes, slots |-> rest.slots]

rewrite_fun(node, slots) ==
    IF node.kind = "argument" /\ ~is_reserved(node)
    THEN LET i == FirstFree(slots, node.arg_type)
         IN  IF i = 0 THEN [node |-> node, slots |-> slots]
             ELSE [node  |-> [node EXCEPT !.value = slots[i].value],
                   slots |-> [slots EXCEPT ![i].consumed = TRUE]]
    ELSE LET sub == RewriteForest(node.children, slots)
         IN  [node |-> [node EXCEPT !.children = sub.nodes], slots |-> sub.slots]

\* rewrite(ast, temp): the tree of the template temp filled with the
\* argument values of ast, or None when temp does not parse
rewrite(ast, temp) ==
    LET ast2 == normalize_ast(temp)
    IN  IF ast2 = None THEN None ELSE rewrite_fun(ast2, arg_slots(ast)).node

\* DBConnection.get_rewrites(ast): SELECT s1, s2 FROM Rewrites WHERE s1 = ?
db_get_rewrites_without_self(d, ast) ==
    LET s1 == ast2template(ast, TRUE)
    IN  {rewrite(ast, r[2]) : r \in RowsFrom(d, "Rewrites", s1)} \ {None}

db_get_rewrites_two_hops(d, ast) ==
    LET s1   == ast2template(ast, TRUE)
        hop1 == {r[2] : r \in RowsFrom(d, "Rewrites", s1)}
        hop2 == UNION {{r[2] : r \in RowsFrom(d, "Rewrites", s2)} : s2 \in hop1}
    IN  {ast} \cup ({rewrite(ast, s2) : s2 \in hop1 \cup hop2} \ {None})

db_get_rewrites(d, ast) ==
    LET s1 == ast2template(ast, TRUE)
    IN  {ast} \cup ({rewrite(ast, r[2]) : r \in RowsFrom(d, "Rewrites", s1)} \ {None})

\* ast_based.get_rewrites(asts, db): the union over the references
get_rewrites(asts, d) ==
    UNION {db_get_rewrites(d, asts[i]) : i \in 1..Len(asts)}

(***************************************************************************)
(* rewrite and get_rewrites on objects.  A tree is a set of Node objects   *)
(* that refer to their children; an assignment node.value = v changes the  *)
(* object, whichever tree reaches it.  The heap is the sequence of the     *)
(* objects made so far, and an object is known by its place in it.         *)
(***************************************************************************)

\* the objects of a tree, children before their parent: [heap, addr]
RECURSIVE StoreTree(_, _)
RECURSIVE StoreForest(_, _)
StoreForest(heap, nodes) ==
    IF Len(nodes) = 0 THEN [heap |-> heap, addrs |-> <<>>]
    ELSE LET first == StoreTree(heap, nodes[1])
             rest  == StoreForest(first.heap, Tail(nodes))
         IN  [heap |-> rest.heap, addrs |-> <<first.addr>> \o rest.addrs]

StoreTree(heap, node) ==
    LET sub == StoreForest(heap, node.children)
    IN  [heap |-> Append(sub.heap, [node EXCEPT !.children = sub.addrs]),
         addr |-> Len(sub.heap) + 1]

\* the tree an object is the root of
RECURSIVE LoadTree(_, _)
RECURSIVE LoadForest(_, _)
LoadForest(heap, addrs) ==
    IF Len(addrs) = 0 THEN <<>>
    ELSE <<LoadTree(heap, addrs[1])>> \o LoadForest(heap, Tail(addrs))

LoadTree(heap, addr) ==
    [heap[addr] EXCEPT !.children = LoadForest(heap, heap[addr].children)]

\* normalizer.arg_slots(ast): a new list of [node, False] entries, one for
\* each argument node of the tree, in document order
RECURSIVE arg_slots_of(_, _)
RECURSIVE forest_slots_of(_, _)
forest_slots_of(heap, addrs) ==
    IF Len(addrs) = 0 THEN <<>>
    ELSE arg_slots_of(heap, addrs[1]) \o forest_slots_of(heap, Tail(addrs))

arg_slots_of(heap, addr) ==
    IF heap[addr].kind = "argument"
    THEN <<[node |-> addr, consumed |-> FALSE]>>
    ELSE forest_slots_of(heap, heap[addr].children)

\* the loop over arg_slots: the first entry that is not consumed and whose
\* node has the argument type, or 0
first_slot_any_type(heap, slots, arg_type) ==
    LET free == {i \in 1..Len(slots) : ~slots[i].consumed}
    IN  IF free = {} THEN 0 ELSE CHOOSE i \in free : \A j \in free : i <= j

first_slot(heap, slots, arg_type) ==
    LET free == {i \in 1..Len(slots) :
                    ~slots[i].consumed /\ heap[slots[i].node].arg_type = arg_type}
    IN  IF free = {} THEN 0 ELSE CHOOSE i \in free : \A j \in free : i <= j

\* node.value = arg_slots[i][0].value; arg_slots[i][1] = True
fill_slot_node(heap, slots, addr, i) ==
    [heap  |-> [heap EXCEPT ![slots[i].node].value = heap[addr].value],
     slots |-> [slots EXCEPT ![i].consumed = TRUE]]

fill_node(heap, slots, addr, i) ==
    [heap  |-> [heap EXCEPT ![addr].value = heap[slots[i].node].value],
     slots |-> [slots EXCEPT ![i].consumed = TRUE]]

\* rewrite_fun(node) on the object at addr: [heap, slots].  A child under
\* which no slot was consumed leaves the heap and the slots as they are.
RECURSIVE rewrite_fun_at(_, _, _)
RECURSIVE rewrite_children_at(_, _, _)
rewrite_children_at(heap, slots, addrs) ==
    IF Len(addrs) = 0 THEN [heap |-> heap, slots |-> slots]
    ELSE LET first == rewrite_fun_at(heap, slots, addrs[1])
         IN  IF first.slots = slots
             THEN rewrite_children_at(heap, slots, Tail(addrs))
             ELSE rewrite_children_at(first.heap, first.slots, Tail(addrs))

rewrite_fun_at(heap, slots, addr) ==
    IF heap[addr].kind = "argument" /\ ~is_reserved(heap[addr])
    THEN LET i == first_slot(heap, slots, heap[addr].arg_type)
         IN  IF i = 0 THEN [heap |-> heap, slots |-> slots]
             ELSE fill_node(heap, slots, addr, i)
    ELSE rewrite_children_at(heap, slots, heap[addr].children)

\* rewrite(ast, temp) for the reference at ast: [heap, ast2]; ast2 is the
\* root of the tree built from temp, or 0 for None.  With no argument in
\* the reference rewrite_fun assigns nothing.
rewrite_at(heap, ast, temp) ==
    LET arg_slots_ == arg_slots_of(heap, ast)
        skeleton   == normalize_ast(temp)
    IN  IF skeleton = None THEN [heap |-> heap, ast2 |-> 0]
        ELSE LET new == StoreTree(heap, skeleton)
             IN  IF Len(arg_slots_) = 0
                 THEN [heap |-> new.heap, ast2 |-> new.addr]
                 ELSE [heap |-> rewrite_fun_at(new.heap, arg_slots_, new.addr).heap,
                       ast2 |-> new.addr]

\* DBConnection.get_rewrites(ast) for the reference at ast, over the rows
\* the query returns: [heap, rewrites]
RECURSIVE get_rewrites_rows(_, _, _, _)
get_rewrites_rows(heap, ast, rows, rewrites) ==
    IF rows = {} THEN [heap |-> heap, rewrites |-> rewrites]
    ELSE LET row == CHOOSE r \in rows : TRUE
             rw  == rewrite_at(heap, ast, row[2])
         IN  get_rewrites_rows(rw.heap, ast, rows \ {row},
                               IF rw.ast2 = 0 THEN rewrites
                               ELSE rewrites \cup {rw.ast2})

get_rewrites_at(d, heap, ast) ==
    LET s1 == ast2template(LoadTree(heap, ast), TRUE)
    IN  get_rewrites_rows(heap, ast, RowsFrom(d, "Rewrites", s1), {ast})

(***************************************************************************)
(* src/eval/extract_rewrites.py: extract_rewrites.  A corpus is            *)
(* [nls, cms, hash_order]: the two files line by line, and the order in    *)
(* which a dict lists the natural-language keys (dict.keys()).             *)
(***************************************************************************)

\* str.lower on the letters the corpora use
Lower(s) == Replace(Replace(Replace(s, "N", "n"), "A", "a"), "F", "f")

\* tokenizer.ner_tokenizer followed by ' '.join: the key of a description
nl_template(nl) == Join(Split(Lower(nl)))

\* Step 1, the entries of zip(nls, cms) that are not skipped
kept_lines_na_as_written(nls, cms) ==
    {k \in 1..Min(Len(nls), Len(cms)) :
        LET nl == Strip(nls[k])
            cm == Strip(cms[k])
        IN  ~(nl = "na" \/ nl = "" \/ cm = "")}

kept_lines(nls, cms) ==
    {k \in 1..Min(Len(nls), Len(cms)) :
        LET nl == Strip(nls[k])
            cm == Strip(cms[k])
        IN  ~(Lower(nl) = "na" \/ nl = "" \/ cm = "")}

\* Step 1: group_pairs_by_nl, the set of command templates of each key
group_pairs_by_nl(nls, cms) ==
    LET kept == kept_lines(nls, cms)
        temp == [k \in kept |->
                    <<nl_template(Strip(nls[k])), cmd2template(Strip(cms[k]))>>]
                @@ <<>>
    IN  [nl_temp \in {temp[k][1] : k \in kept} |->
            {temp[k][2] : k \in {k2 \in kept : temp[k2][1] = nl_temp}}] @@ <<>>

\* dict.keys(): the keys of a dict in hash order
keys_of(groups, hash_order) ==
    SelectSeq(hash_order, LAMBDA key : key \in DOMAIN groups)

\* Step 2, the body of the inner loop for one (i, j): [groups, merged]
cluster_step_both_ways(groups, merged, nls, i, j) ==
    LET cm_temp_set  == groups[nls[i]]
        cm_temp_set2 == groups[nls[j]]
    IN  IF Cardinality(cm_temp_set \cap cm_temp_set2) >= 2
        THEN [groups |-> [groups EXCEPT ![nls[j]] = @ \cup cm_temp_set,
                                        ![nls[i]] = @ \cup cm_temp_set2],
              merged |-> merged \cup {i}]
        ELSE [groups |-> groups, merged |-> merged]

cluster_step_without_union(groups, merged, nls, i, j) ==
    LET cm_temp_set  == groups[nls[i]]
        cm_temp_set2 == groups[nls[j]]
    IN  IF Cardinality(cm_temp_set \cap cm_temp_set2) >= 2
        THEN [groups |-> groups, merged |-> merged \cup {i}]
        ELSE [groups |-> groups, merged |-> merged]

cluster_step_marks_target(groups, merged, nls, i, j) ==
    LET cm_temp_set  == groups[nls[i]]
        cm_temp_set2 == groups[nls[j]]
    IN  IF Cardinality(cm_temp_set \cap cm_temp_set2) >= 2
        THEN [groups |-> [groups EXCEPT ![nls[j]] = @ \cup cm_temp_set],
              merged |-> merged \cup {j}]
        ELSE [groups |-> groups, merged |-> merged]

cluster_step(groups, merged, nls, i, j) ==
    LET cm_temp_set  == groups[nls[i]]
        cm_temp_set2 == groups[nls[j]]
    IN  IF Cardinality(cm_temp_set \cap cm_temp_set2) >= 2
        THEN [groups |-> [groups EXCEPT ![nls[j]] = @ \cup cm_temp_set],
              merged |-> merged \cup {i}]
        ELSE [groups |-> groups, merged |-> merged]

\* the (i, j) the loops visit after (i, j); past the last one, j > n
next_pair(i, j, n) == IF j + 1 <= n THEN <<i, j + 1>> ELSE <<i + 1, i + 2>>

\* Step 2, the inner loop of group i from j on; [groups, merged].  A pass
\* that merges nothing leaves the groups and the merged set as they are.
RECURSIVE cluster_inner(_, _, _, _, _)
cluster_inner(groups, merged, nls, i, j) ==
    IF j > Len(nls) THEN [groups |-> groups, merged |-> merged]
    ELSE LET step == cluster_step(groups, merged, nls, i, j)
         IN  IF step = [groups |-> groups, merged |-> merged]
             THEN cluster_inner(groups, merged, nls, i, j + 1)
             ELSE cluster_inner(step.groups, step.merged, nls, i, j + 1)

\* Step 2: the outer loop from i on; [groups, merged]
RECURSIVE cluster(_, _, _, _)
cluster(groups, merged, nls, i) ==
    IF i > Len(nls) THEN [groups |-> groups, merged |-> merged]
    ELSE LET inner == cluster_inner(groups, merged, nls, i, i + 1)
         IN  IF inner = [groups |-> groups, merged |-> merged]
             THEN cluster(groups, merged, nls, i + 1)
             ELSE cluster(inner.groups, inner.merged, nls, i + 1)

\* Step 3: the keys that were not merged away, in dict order
surviving(nls, merged) ==
    LET alive == SelectSeq([i \in 1..Len(nls) |-> i], LAMBDA i : i \notin merged)
    IN  [p \in 1..Len(alive) |-> nls[alive[p]]]

\* sorted(items, key=lambda x: len(x[1]), reverse=True): a stable sort, so
\* a key comes after the larger ones and after the earlier ones of its size
sorted_by_size(keys, groups) ==
    LET size(p) == Cardinality(groups[keys[p]])
        rank(p) == 1 + Cardinality({q \in 1..Len(keys) :
                                       \/ size(q) > size(p)
                                       \/ size(q) = size(p) /\ q < p})
    IN  [r \in 1..Len(keys) |-> keys[CHOOSE p \in 1..Len(keys) : rank(p) = r]]

\* the slice [:10]
TopN == 10

\* the two loops over cm_temps: every ordered pair of distinct templates
ordered_pairs_from_one(cm_temps) ==
    LET cm_temp1 == CHOOSE t \in cm_temps : TRUE
    IN  {<<cm_temp1, cm_temp2>> : cm_temp2 \in cm_temps \ {cm_temp1}}

ordered_pairs(cm_temps) ==
    {<<cm_temp1, cm_temp2>> : cm_temp1 \in cm_temps, cm_temp2 \in cm_temps}
        \ {<<t, t>> : t \in cm_temps}

\* if not db.exist_rewrite(pair): db.add_rewrite(pair), for every pair; the
\* pairs are distinct, so each one that is missing is added once
RECURSIVE add_rewrites(_, _)
add_rewrites(d, pairs) ==
    IF pairs = {} THEN d
    ELSE LET pair == CHOOSE x \in pairs : TRUE
         IN  add_rewrites(add_rewrite(d, pair), pairs \ {pair})

store_pairs(d, pairs) ==
    LET missing == {pair \in pairs : ~exist_rewrite(d, pair)}
    IN  add_rewrites(d, missing)

\* Step 4: the clusters of the slice, largest first
RECURSIVE store_clusters(_, _, _)
store_clusters(d, keys, groups) ==
    IF Len(keys) = 0 THEN d
    ELSE LET cm_temps == groups[keys[1]]
         IN  store_clusters(IF Cardinality(cm_temps) >= 2
                            THEN store_pairs(d, ordered_pairs(cm_temps)) ELSE d,
                            Tail(keys), groups)

\* Steps 3 and 4: the keys whose clusters are emitted, in order
top_clusters(groups, merged, nls) ==
    LET alive  == surviving(nls, merged)
        sorted == sorted_by_size(alive, groups)
    IN  SubSeq(sorted, 1, Min(TopN, Len(sorted)))

\* the clusters extract_rewrites emits for a corpus: [groups, keys]
clusters_of(data) ==
    LET step1  == group_pairs_by_nl(data.nls, data.cms)
        nls    == keys_of(step1, data.hash_order)
        step2  == cluster(step1, {}, nls, 1)
    IN  [groups |-> step2.groups, merged |-> step2.merged, nls |-> nls,
         keys |-> top_clusters(step2.groups, step2.merged, nls)]

extract_rewrites(d, data) ==
    LET c == clusters_of(data)
    IN  store_clusters(create_schema(d), c.keys, c.groups)

\* Step 4 as the sequence of pairs the loops visit: for each cluster of the
\* slice with two templates or more, cm_temp1 and cm_temp2 over the set in
\* its iteration order, equal ones skipped
RECURSIVE iteration_order(_)
iteration_order(cm_temps) ==
    IF cm_temps = {} THEN <<>>
    ELSE LET t == CHOOSE x \in cm_temps : TRUE
         IN  <<t>> \o iteration_order(cm_temps \ {t})

pairs_visited(cm_temps) ==
    LET order == iteration_order(cm_temps)
        n     == Len(order)
    IN  SelectSeq([k \in 1..(n * n) |->
                      <<order[((k - 1) \div n) + 1], order[((k - 1) % n) + 1]>>],
                  LAMBDA pair : pair[1] # pair[2])

RECURSIVE step4_pairs(_, _)
step4_pairs(keys, groups) ==
    IF Len(keys) = 0 THEN <<>>
    ELSE (IF Cardinality(groups[keys[1]]) >= 2
          THEN pairs_visited(groups[keys[1]]) ELSE <<>>)
             \o step4_pairs(Tail(keys), groups)

(***************************************************************************)
(* src/eval/ast_based.py: min_dist and one_match.  A Python set is visited *)
(* in an order the program does not control: the loops take the order as   *)
(* an argument.                                                            *)
(***************************************************************************)

\* sys.maxint (of a 32-bit build)
maxint == 2147483647

\* every order in which a loop may visit the elements of a set
RECURSIVE Orders(_)
Orders(S) ==
    IF S = {} THEN {<<>>}
    ELSE UNION {{<<x>> \o rest : rest \in Orders(S \ {x})} : x \in S}

\* the candidates of an evaluation, in each order the loop may visit them
Candidates(asts, d, use_rewrites) ==
    IF use_rewrites THEN Orders(get_rewrites(asts, d)) ELSE {asts}

\* the loop of min_dist over ast_rewrites, from the running minimum acc
RECURSIVE min_dist_loop(_, _, _, _)
min_dist_loop(ast_rewrites, ast2, ignore_arg_value, acc) ==
    IF Len(ast_rewrites) = 0 THEN acc
    ELSE LET ast1 == ast_rewrites[1]
             dist == IF ignore_arg_value THEN temp_dist(ast1, ast2)
                     ELSE str_dist(ast1, ast2)
         IN  min_dist_loop(Tail(ast_rewrites), ast2, ignore_arg_value,
                           IF dist < acc THEN dist ELSE acc)

min_dist_no_fallback(ast_rewrites, ast2, ignore_arg_value) ==
    IF ast2 = None THEN Raised("AttributeError")
    ELSE Returned(min_dist_loop(ast_rewrites, ast2, ignore_arg_value, maxint))

min_dist_last(ast_rewrites, ast2, ignore_arg_value) ==
    LET p == IF ast2 = None THEN bash_parser("find") ELSE ast2
        n == Len(ast_rewrites)
    IN  Returned(IF n = 0 THEN maxint
                 ELSE min_dist_loop(<<ast_rewrites[n]>>, p, ignore_arg_value, maxint))

\* min_dist with the candidates in the order visited
min_dist(ast_rewrites, ast2, ignore_arg_value) ==
    LET p == IF ast2 = None THEN bash_parser("find") ELSE ast2
    IN  Returned(min_dist_loop(ast_rewrites, p, ignore_arg_value, maxint))

\* the loop of one_match over ast_rewrites
RECURSIVE one_match_loop(_, _, _)
one_match_loop(ast_rewrites, cmd2, ignore_arg_value) ==
    IF Len(ast_rewrites) = 0 THEN FALSE
    ELSE LET cmd1 == ignore_differences(
                         ast2template(ast_rewrites[1], ignore_arg_value))
         IN  IF cmd1 = cmd2 THEN TRUE
             ELSE one_match_loop(Tail(ast_rewrites), cmd2, ignore_arg_value)

\* one_match with the candidates in the order visited; asts[0] is printed first
one_match(asts, ast_rewrites, ast2, ignore_arg_value) ==
    IF Len(asts) = 0 THEN Raised("IndexError")
    ELSE LET cmd2 == ignore_differences(ast2template(ast2, ignore_arg_value))
         IN  Returned(one_match_loop(ast_rewrites, cmd2, ignore_arg_value))

(***************************************************************************)
(* Bounds and the inputs the operations are called with.                   *)
(***************************************************************************)

\* store-writing operations in one behaviour
MaxWrites == 3

\* reference trees handed to min_dist and one_match
MaxRefs == 2

\* corpus lines added to a base corpus
MaxExtra == 1

\* flags of a template handed to ignore_differences
MaxFlags == 2

\* flags of a tree handed to str_dist and temp_dist
MaxTreeFlags == 2

\* sequences over S of length at most n
RECURSIVE SeqsUpTo(_, _)
SeqsUpTo(S, n) ==
    IF n = 0 THEN {<<>>}
    ELSE LET shorter == SeqsUpTo(S, n - 1)
         IN  shorter \cup {Append(q, x) : q \in {r \in shorter : Len(r) = n - 1}, x \in S}

RECURSIVE Flatten(_)
Flatten(seqs) == IF Len(seqs) = 0 THEN <<>> ELSE seqs[1] \o Flatten(Tail(seqs))

EmptyStore == [t \in {"Rewrites"} |-> EmptyBag]

NoCorpus == [nls |-> <<>>, cms |-> <<>>, hash_order |-> <<>>]

NoCall == [name |-> "init"]

NoExample == [asts |-> <<>>, ast2 |-> None]

\* ---- corpora ----

NlKeys == {"find foo", "find bar", "find baz"}

BaseCorpora ==
    { <<>>,
      \* two descriptions whose template sets share two templates
      << <<"find foo", "find . -iname a">>, <<"find foo", "locate a">>,
         <<"find foo", "find .">>, <<"find bar", "find . -name a">>,
         <<"find bar", "locate a">>, <<"find bar", "find .">> >>,
      \* two descriptions that share one template
      << <<"find foo", "find . -iname a">>, <<"find foo", "find . -name a">>,
         <<"find bar", "find . -name a">>, <<"find bar", "locate a">> >>,
      \* three descriptions that overlap in a chain
      << <<"find foo", "find . -iname a">>, <<"find foo", "locate a">>,
         <<"find bar", "find . -iname b">>, <<"find bar", "locate b">>,
         <<"find bar", "find . -name a">>, <<"find baz", "find . -name b">>,
         <<"find baz", "locate a">>, <<"find baz", "find .">> >> }

ExtraLines ==
    {"Find  foo", " NA", "Na ", " "} \X {"find . -name a", "bogus", " "}

CorpusOf(lines, hash_order) ==
    [nls |-> [i \in 1..Len(lines) |-> lines[i][1]],
     cms |-> [i \in 1..Len(lines) |-> lines[i][2]],
     hash_order |-> hash_order]

\* a corpus of many descriptions, each with the command `find .` and one
\* command of its own: no two template sets share two templates
ManyKeys ==
    << "find a", "find b", "find c", "find d", "find e", "find f",
       "find g", "find h", "find i", "find j", "find k" >>

ManyCommands ==
    << "find . -name a", "find . -iname a", "find . -regex a",
       "find . -iregex a", "find . -user a", "find . -ls", "find . -print",
       "find . -print0", "find . -delete", "locate a", "find" >>

ManyLines ==
    Flatten([k \in 1..Len(ManyKeys) |->
                << <<ManyKeys[k], "find .">>, <<ManyKeys[k], ManyCommands[k]>> >>])

Reverse(q) == [k \in 1..Len(q) |-> q[Len(q) + 1 - k]]

Corpora ==
    {CorpusOf(base \o extra, hash_order) :
        base \in BaseCorpora, extra \in SeqsUpTo(ExtraLines, MaxExtra),
        hash_order \in Orders(NlKeys)}
    \cup {CorpusOf(ManyLines, hash_order) :
             hash_order \in {ManyKeys, Reverse(ManyKeys)}}

\* ---- store rows written by add_rewrite ----

AddPairs ==
    { <<"find File -name Regex", "find File -iname Regex">>,
      <<"find File -name Regex", "locate Regex">>,
      \* a target and a source that do not parse
      <<"find File -name Regex", "find -name">>,
      <<"find -name", "locate Regex">>,
      \* a second hop from a target
      <<"locate Regex", "find File">> }

StoreTemplates == {p[1] : p \in AddPairs} \cup {p[2] : p \in AddPairs}

\* ---- trees handed to the evaluator ----

\* the trees get_rewrites is called with on the store
StoreCommands == {"find . -name a", "locate a", "find ."}

StoreTrees == {bash_parser(c) : c \in StoreCommands}

RefCommands == {"find .", "find -name a", "find"}

RefTrees == {bash_parser(c) : c \in RefCommands}

\* a prediction that does not parse reaches the evaluator as None
PredictedCommands == {"find . -print", "locate b", "find --"}

Predictions == {bash_parser(c) : c \in PredictedCommands}

\* the rows the evaluator's store is filled with
EvalPairs ==
    { <<"find -name Regex", "find -iname Regex">>,
      <<"find -name Regex", "locate Regex">>,
      <<"find -name Regex", "find -name">> }

\* ---- labels and templates handed to the cost function and normaliser ----

Labels ==
    {"", "ROOT_", "HEADCOMMAND_find", "ARGUMENT_a", "ARGUMENT_b", "ARGUMENT_."}
    \cup {"FLAG_" \o f : f \in ArgFlags \cup PlainFlags}

FlagTokens ==
    { <<"-name", "Regex">>, <<"-iname", "Regex">>, <<"-regex", "Regex">>,
      <<"-iregex", "Regex">>, <<"-print">>, <<"-print0">>, <<"-ls">> }

TemplateTokens ==
    {<<"find", "File">> \o Flatten(flags) : flags \in SeqsUpTo(FlagTokens, MaxFlags)}

\* ---- trees handed to str_dist and temp_dist ----

TreeHeads == { <<"find", ".">>, <<"locate", "b">> }

TreeFlagTokens == { <<"-name", "a">>, <<"-iname", "b">>, <<"-print">> }

TreeCommands ==
    {Join(head \o Flatten(flags)) :
        head \in TreeHeads, flags \in SeqsUpTo(TreeFlagTokens, MaxTreeFlags)}

Trees == {bash_parser(c) : c \in TreeCommands}

\* ---- trees that differ in the nodes added to one of them ----

MaxFewTokens == 1

MaxMoreTokens == 3

AddedTokens ==
    { <<"-name", "a">>, <<"-ls">>, <<"-print">>, <<"-print0">>, <<"-delete">>,
      <<"b">> }

FewTrees ==
    {bash_parser(Join(<<"find", ".">> \o Flatten(flags))) :
        flags \in SeqsUpTo(AddedTokens, MaxFewTokens)}

MoreTrees ==
    {bash_parser(Join(<<"find", ".">> \o Flatten(flags))) :
        flags \in SeqsUpTo(AddedTokens, MaxMoreTokens)}

\* ---- corpora of concurrent extraction runs ----

Writers == {1, 2}

WriterCorpora ==
    {CorpusOf(lines, <<"find foo", "find bar">>) :
        lines \in
            { \* one cluster of three templates
              << <<"find foo", "find . -name a">>, <<"find foo", "locate a">>,
                 <<"find foo", "find .">> >>,
              \* two clusters of two templates
              << <<"find foo", "find . -iname a">>, <<"find foo", "find . -name a">>,
                 <<"find bar", "find . -name a">>, <<"find bar", "locate a">> >> }}

NoWriter == [pc |-> "idle", todo |-> <<>>]

\* ---- references and templates handed to rewrite ----

RewriteCommands ==
    {"find . -name a -iname b", "find . -name a", "locate a",
     "find . -user u -name a", "find ."}

RewriteTrees == {bash_parser(c) : c \in RewriteCommands}

RewriteTemplates ==
    {"locate Regex Regex", "locate Regex", "find File -name Regex",
     "find File File", "find {} -name Regex", "find -name"}

\* the rows the store of the expander is filled with
RewritePairs ==
    { <<"find File -name Regex -iname Regex", "locate Regex Regex">>,
      <<"find File -name Regex -iname Regex", "locate Regex">>,
      <<"find File -name Regex -iname Regex", "find -name">> }

(***************************************************************************)
(* The operations.                                                         *)
(***************************************************************************)

AddRewrite(pair) ==
    /\ Idle(ret)
    /\ Len(writes) < MaxWrites
    /\ db' = add_rewrite(db, pair)
    /\ writes' = Append(writes, "add_rewrite")
    /\ op' = [name |-> "add_rewrite", pair |-> pair]
    /\ ret' = Returned({})
    /\ UNCHANGED <<corpus, example>>

ExistRewrite(pair) ==
    /\ Idle(ret)
    /\ op' = [name |-> "exist_rewrite", pair |-> pair]
    /\ ret' = Returned(exist_rewrite(db, pair))
    /\ UNCHANGED <<db, corpus, example, writes>>

\* the module-level clean_rewrites(): create_schema, then db.clean_rewrites()
CleanRewrites ==
    /\ Idle(ret)
    /\ Len(writes) < MaxWrites
    /\ db' = clean_rewrites(create_schema(db))
    /\ writes' = Append(writes, "clean_rewrites")
    /\ op' = [name |-> "clean_rewrites"]
    /\ ret' = Returned({})
    /\ UNCHANGED <<corpus, example>>

GetRewriteTemplates(s1) ==
    /\ Idle(ret)
    /\ op' = [name |-> "get_rewrite_templates", s1 |-> s1]
    /\ ret' = get_rewrite_templates(db, s1)
    /\ UNCHANGED <<db, corpus, example, writes>>

DbGetRewrites(ast) ==
    /\ Idle(ret)
    /\ op' = [name |-> "get_rewrites", ast |-> ast]
    /\ ret' = Returned(db_get_rewrites(db, ast))
    /\ UNCHANGED <<db, corpus, example, writes>>

ExtractRewrites ==
    /\ Idle(ret)
    /\ Len(writes) < MaxWrites
    /\ db' = extract_rewrites(db, corpus)
    /\ writes' = Append(writes, "extract_rewrites")
    /\ op' = [name |-> "extract_rewrites"]
    /\ ret' = Returned({})
    /\ UNCHANGED <<corpus, example>>

\* extract_rewrites one step at a time.  Step 1: the groups of the corpus
GroupPairs ==
    /\ Idle(ret)
    /\ Len(writes) < MaxWrites
    /\ LET groups == group_pairs_by_nl(corpus.nls, corpus.cms)
       IN  op' = [name |-> "extract_rewrites", groups |-> groups, merged |-> {},
                  nls |-> keys_of(groups, corpus.hash_order), i |-> 1, j |-> 2]
    /\ ret' = Pending
    /\ UNCHANGED <<db, corpus, example, writes>>

\* Step 2: one pass of the inner loop
ClusterStep ==
    /\ ~Idle(ret)
    /\ op.name = "extract_rewrites"
    /\ op.j <= Len(op.nls)
    /\ LET step == cluster_step(op.groups, op.merged, op.nls, op.i, op.j)
           next == next_pair(op.i, op.j, Len(op.nls))
       IN  op' = [op EXCEPT !.groups = step.groups, !.merged = step.merged,
                            !.i = next[1], !.j = next[2]]
    /\ UNCHANGED <<db, corpus, example, writes, ret>>

\* Steps 3 and 4: the clusters that survive are stored
StoreClusters ==
    /\ ~Idle(ret)
    /\ op.name = "extract_rewrites"
    /\ op.j > Len(op.nls)
    /\ db' = store_clusters(create_schema(db),
                            top_clusters(op.groups, op.merged, op.nls), op.groups)
    /\ writes' = Append(writes, "extract_rewrites")
    /\ ret' = Returned({})
    /\ UNCHANGED <<corpus, example, op>>

\* the evaluation script calls min_dist or one_match on its example
Call(name, use_rewrites, ignore_arg_value) ==
    /\ Idle(ret)
    /\ op' = [name |-> name, asts |-> example.asts, ast2 |-> example.ast2,
              rewrite |-> use_rewrites, ignore_arg_value |-> ignore_arg_value]
    /\ ret' = Pending
    /\ UNCHANGED <<db, corpus, example, writes>>

MinDist ==
    /\ ~Idle(ret)
    /\ op.name = "min_dist"
    /\ \E ast_rewrites \in Candidates(op.asts, db, op.rewrite) :
           ret' = min_dist(ast_rewrites, op.ast2, op.ignore_arg_value)
    /\ UNCHANGED <<db, corpus, example, writes, op>>

OneMatch ==
    /\ ~Idle(ret)
    /\ op.name = "one_match"
    /\ \E ast_rewrites \in Candidates(op.asts, db, op.rewrite) :
           ret' = one_match(op.asts, ast_rewrites, op.ast2, op.ignore_arg_value)
    /\ UNCHANGED <<db, corpus, example, writes, op>>

LocalDist(s1, s2, skip_argument) ==
    /\ Idle(ret)
    /\ op' = [name |-> "local_dist", s1 |-> s1, s2 |-> s2,
              skip_argument |-> skip_argument]
    /\ ret' = Returned(local_dist(s1, s2, skip_argument))
    /\ UNCHANGED <<db, corpus, example, writes>>

IgnoreDifferences(tokens) ==
    /\ Idle(ret)
    /\ op' = [name |-> "ignore_differences", tokens |-> tokens]
    /\ ret' = Returned(ignore_differences(Join(tokens)))
    /\ UNCHANGED <<db, corpus, example, writes>>

\* the distance of the example is measured once, in one of the two modes
StrDist ==
    /\ op = NoCall
    /\ op' = [name |-> "str_dist", ast1 |-> example.asts[1], ast2 |-> example.ast2]
    /\ ret' = Returned(str_dist(example.asts[1], example.ast2))
    /\ UNCHANGED <<db, corpus, example, writes>>

TempDist ==
    /\ op = NoCall
    /\ op' = [name |-> "temp_dist", ast1 |-> example.asts[1], ast2 |-> example.ast2]
    /\ ret' = Returned(temp_dist(example.asts[1], example.ast2))
    /\ UNCHANGED <<db, corpus, example, writes>>

\* rewrite(ast, temp) on a reference tree that has just been parsed
Rewrite(ast, temp) ==
    /\ Idle(ret)
    /\ LET ref == StoreTree(<<>>, ast)
       IN  /\ op' = [name |-> "rewrite", heap |-> ref.heap, ast |-> ref.addr,
                     temp |-> temp]
           /\ ret' = Returned(rewrite_at(op'.heap, op'.ast, temp))
    /\ UNCHANGED <<db, corpus, example, writes>>

\* db.get_rewrites(ast) on a reference tree that has just been parsed
GetRewrites(ast) ==
    /\ Idle(ret)
    /\ LET ref == StoreTree(<<>>, ast)
       IN  /\ op' = [name |-> "db.get_rewrites", heap |-> ref.heap,
                     ast |-> ref.addr]
           /\ ret' = Returned(get_rewrites_at(db, op'.heap, op'.ast))
    /\ UNCHANGED <<db, corpus, example, writes>>

\* An extraction process reaches step 4: it opens the store, creates the
\* schema and has the pairs of its clusters before it.  Another process may
\* be in its own step 4 at the time.
StartRun(p) ==
    /\ op.procs[p].pc = "idle"
    /\ Len(writes) < MaxWrites
    /\ LET c == clusters_of(corpus)
       IN  op' = [op EXCEPT
                    !.procs[p] = [pc |-> "exist",
                                  todo |-> step4_pairs(c.keys, c.groups)],
                    !.overlapped = @ \/ \E q \in Writers \ {p} :
                                            op.procs[q].pc # "idle"]
    /\ db' = create_schema(db)
    /\ writes' = Append(writes, "extract_rewrites")
    /\ UNCHANGED <<corpus, example, ret>>

\* if not db.exist_rewrite(pair): the SELECT of one process
CheckExist(p) ==
    /\ op.procs[p].pc = "exist"
    /\ Len(op.procs[p].todo) > 0
    /\ op' = IF exist_rewrite(db, Head(op.procs[p].todo))
             THEN [op EXCEPT !.procs[p].todo = Tail(@)]
             ELSE [op EXCEPT !.procs[p].pc = "add"]
    /\ UNCHANGED <<db, corpus, example, writes, ret>>

\* db.add_rewrite(pair): the INSERT and commit of one process
AddMissing(p) ==
    /\ op.procs[p].pc = "add"
    /\ db' = add_rewrite(db, Head(op.procs[p].todo))
    /\ op' = [op EXCEPT !.procs[p] = [pc |-> "exist", todo |-> Tail(@.todo)]]
    /\ UNCHANGED <<corpus, example, writes, ret>>

\* the loops of step 4 are over: the process closes the store
EndRun(p) ==
    /\ op.procs[p].pc = "exist"
    /\ Len(op.procs[p].todo) = 0
    /\ op' = [op EXCEPT !.procs[p].pc = "idle"]
    /\ UNCHANGED <<db, corpus, example, writes, ret>>

(***************************************************************************)
(* Specifications.                                                         *)
(***************************************************************************)

\* the rewrite store under its own operations
Init ==
    /\ db = EmptyStore
    /\ corpus = NoCorpus
    /\ example = NoExample
    /\ writes = <<>>
    /\ op = NoCall
    /\ ret = Returned({})

Next ==
    \/ \E pair \in AddPairs : AddRewrite(pair)
    \/ \E pair \in AddPairs : ExistRewrite(pair)
    \/ CleanRewrites
    \/ \E s1 \in StoreTemplates : GetRewriteTemplates(s1)
    \/ \E ast \in StoreTrees : DbGetRewrites(ast)

Spec == Init /\ [][Next]_vars

\* the extractor run over a corpus, as the script does: prune, then extract
InitExtract ==
    /\ db = EmptyStore
    /\ corpus \in Corpora
    /\ example = NoExample
    /\ writes = <<>>
    /\ op = NoCall
    /\ ret = Returned({})

NextExtract ==
    \/ ExtractRewrites
    \/ CleanRewrites

SpecExtract == InitExtract /\ [][NextExtract]_vars

\* the extractor run over a corpus one loop pass at a time
NextCluster ==
    \/ GroupPairs
    \/ ClusterStep
    \/ StoreClusters

SpecCluster == InitExtract /\ [][NextCluster]_vars

\* the evaluator run on one example, over a store filled by add_rewrite
InitEval ==
    /\ db = EmptyStore
    /\ corpus = NoCorpus
    /\ example \in [asts : SeqsUpTo(RefTrees, MaxRefs), ast2 : Predictions]
    /\ writes = <<>>
    /\ op = NoCall
    /\ ret = Returned({})

NextEval ==
    \/ \E pair \in EvalPairs : AddRewrite(pair)
    \/ \E name \in {"min_dist", "one_match"},
          use_rewrites \in BOOLEAN, ignore_arg_value \in BOOLEAN :
           Call(name, use_rewrites, ignore_arg_value)
    \/ MinDist
    \/ OneMatch

SpecEval == InitEval /\ [][NextEval]_vars

\* the cost function and the normaliser on their own
NextCost ==
    \/ \E s1 \in Labels, s2 \in Labels, skip_argument \in BOOLEAN :
           LocalDist(s1, s2, skip_argument)
    \/ \E tokens \in TemplateTokens : IgnoreDifferences(tokens)

SpecCost == Init /\ [][NextCost]_vars

\* the two tree edit distances on a pair of trees
InitTed ==
    /\ db = EmptyStore
    /\ corpus = NoCorpus
    /\ example \in {[asts |-> <<ast1>>, ast2 |-> ast2] : ast1 \in Trees, ast2 \in Trees}
    /\ writes = <<>>
    /\ op = NoCall
    /\ ret = Returned({})

NextTed ==
    \/ StrDist
    \/ TempDist

SpecTed == InitTed /\ [][NextTed]_vars

\* the two tree edit distances on a tree and a tree with more nodes, in
\* either order
InitAdded ==
    /\ db = EmptyStore
    /\ corpus = NoCorpus
    /\ example \in {[asts |-> <<ast1>>, ast2 |-> ast2] :
                       ast1 \in FewTrees, ast2 \in MoreTrees}
                   \cup {[asts |-> <<ast1>>, ast2 |-> ast2] :
                            ast1 \in MoreTrees, ast2 \in FewTrees}
    /\ writes = <<>>
    /\ op = NoCall
    /\ ret = Returned({})

SpecAdded == InitAdded /\ [][NextTed]_vars

\* the expander on its own, over a store filled by add_rewrite
NextRewrite ==
    \/ \E pair \in RewritePairs : AddRewrite(pair)
    \/ \E ast \in RewriteTrees, temp \in RewriteTemplates : Rewrite(ast, temp)
    \/ \E ast \in RewriteTrees : GetRewrites(ast)

SpecRewrite == Init /\ [][NextRewrite]_vars

\* extraction processes that share the store, each statement one step
InitWriters ==
    /\ db = EmptyStore
    /\ corpus \in WriterCorpora
    /\ example = NoExample
    /\ writes = <<>>
    /\ op = [name |-> "writers", overlapped |-> FALSE,
             procs |-> [p \in Writers |-> NoWriter]]
    /\ ret = Returned({})

NextWriters ==
    \E p \in Writers :
        \/ StartRun(p)
        \/ CheckExist(p)
        \/ AddMissing(p)
        \/ EndRun(p)

SpecWriters == InitWriters /\ [][NextWriters]_vars

(***************************************************************************)
(* Properties.                                                             *)
(***************************************************************************)

\* the last operation called is `name` and it has returned or raised
Done(name) == op.name = name /\ Idle(ret)

\* the prediction min_dist compares with: the fallback tree for None
Compared(ast2) == IF ast2 = None THEN bash_parser("find") ELSE ast2

\* the trees a call of the evaluator compares the prediction with
CandidateSet(call) ==
    IF call.rewrite THEN get_rewrites(call.asts, db)
    ELSE {call.asts[i] : i \in 1..Len(call.asts)}

\* the distance of a call's mode between a candidate and the prediction
Dist(call, ast1) ==
    IF call.ignore_arg_value THEN temp_dist(ast1, Compared(call.ast2))
    ELSE str_dist(ast1, Compared(call.ast2))

\* C1: enabling rewrites never increases the minimum distance: what
\* min_dist returns with rewrite=True is at most what it returns for the
\* same references, prediction and mode with rewrite=False.
C1_RewritesNeverIncrease ==
    (Done("min_dist") /\ op.rewrite)
        => /\ ret.raised = ""
           /\ ret.value <= min_dist(op.asts, op.ast2, op.ignore_arg_value).value

\* C1 witness: a call with rewrites whose result is strictly smaller than
\* the result without them.
C1_Witness ==
    /\ Done("min_dist") /\ op.rewrite
    /\ ret.value < min_dist(op.asts, op.ast2, op.ignore_arg_value).value

\* C2: starting from an empty store, two extract_rewrites runs back to back
\* on the same corpus leave exactly the rows one run leaves, none twice.
C2_ExtractionIdempotent ==
    (writes = <<"extract_rewrites", "extract_rewrites">>)
        => /\ db = extract_rewrites(EmptyStore, corpus)
           /\ \A r \in BagToSet(db["Rewrites"]) : CopiesIn(r, db["Rewrites"]) = 1

\* C2 witness: two runs have been made and the store holds rows.
C2_Witness ==
    /\ writes = <<"extract_rewrites", "extract_rewrites">>
    /\ BagCardinality(db["Rewrites"]) >= 2

\* C3 as claimed: after add_rewrite((s1, s2)) the store holds the pair
\* (s1, s2) exactly once, also when it was stored before the call.
C3_AddIsIdempotent ==
    Done("add_rewrite") => CopiesIn(op.pair, db["Rewrites"]) = 1

\* C3 amended: add_rewrite inserts unconditionally: every call adds exactly
\* one row equal to the pair, changes no other row and raises no error, so
\* a call on a stored pair leaves the pair stored twice.
C3_AddAlwaysInserts ==
    [][(op'.name = "add_rewrite" /\ writes' # writes)
          => /\ ret'.raised = ""
             /\ db'["Rewrites"] = db["Rewrites"] (+) SetToBag({op'.pair})]_vars

\* C3 witness: add_rewrite was called on a pair that was already stored.
C3_Witness ==
    Done("add_rewrite") /\ CopiesIn(op.pair, db["Rewrites"]) = 2

\* C4: get_rewrite_templates(t) returns exactly the set of the s2 of the
\* stored rows (t, s2), and nothing else.
C4_SingleHopLookup ==
    Done("get_rewrite_templates")
        => /\ ret.raised = ""
           /\ ret.value = {r[2] : r \in RowsFrom(db, "Rewrites", op.s1)}

\* C5: one_match on the prediction `find . -print` and the single reference
\* `find .`, without rewrites, returns True.
C5_ScenarioB ==
    (/\ Done("one_match") /\ ~op.rewrite
     /\ op.asts = <<bash_parser("find .")>>
     /\ op.ast2 = bash_parser("find . -print"))
        => ret.raised = "" /\ ret.value = TRUE

\* the tokens with every token f replaced by g
SwapToken(tokens, f, g) ==
    [i \in 1..Len(tokens) |-> IF tokens[i] = f THEN g ELSE tokens[i]]

SynonymFlags == {"-name", "-iname", "-regex", "-iregex"}

\* C6: for any two flags f, g of -name, -iname, -regex, -iregex and any
\* template that contains f, ignore_differences gives the same string for
\* the template and for the template with f replaced by g.
C6_SynonymsNormalised ==
    Done("ignore_differences")
        => \A f \in SynonymFlags, g \in SynonymFlags :
              (\E i \in 1..Len(op.tokens) : op.tokens[i] = f)
                  => ret.value
                       = ignore_differences(Join(SwapToken(op.tokens, f, g)))

\* C7: min_dist on a prediction that is None does not raise and returns a
\* number in 0..sys.maxint that is the least distance from the fallback
\* tree parse("find") to a candidate (sys.maxint when there is none).
C7_TotalOnNullPrediction ==
    (Done("min_dist") /\ op.ast2 = None)
        => /\ ret.raised = ""
           /\ ret.value \in 0..maxint
           /\ \A c \in CandidateSet(op) :
                 ret.value <= simple_distance(c, bash_parser("find"),
                                              op.ignore_arg_value)
           /\ \/ CandidateSet(op) = {} /\ ret.value = maxint
              \/ \E c \in CandidateSet(op) :
                    ret.value = simple_distance(c, bash_parser("find"),
                                                op.ignore_arg_value)

\* C7 witness: min_dist returned for a None prediction, with rewrites on and
\* a rewritten candidate among those compared.
C7_Witness ==
    /\ Done("min_dist") /\ op.ast2 = None /\ op.rewrite
    /\ Cardinality(CandidateSet(op)) > Len(op.asts)
    /\ ret.value < maxint

\* C8: min_dist returns the minimum over the candidates (the union of the
\* expanded sets with rewrites, the references without) of the distance of
\* the mode, in whatever order the candidates are visited.
C8_ExactMinimum ==
    (Done("min_dist") /\ CandidateSet(op) # {})
        => /\ \A c \in CandidateSet(op) : ret.value <= Dist(op, c)
           /\ \E c \in CandidateSet(op) : ret.value = Dist(op, c)

\* C8 witness: min_dist returned over candidates of different distances,
\* some of them rewrites.
C8_Witness ==
    /\ Done("min_dist") /\ op.rewrite /\ Len(op.asts) = 2
    /\ CandidateSet(op) \ {op.asts[1], op.asts[2]} # {}
    /\ \E c1 \in CandidateSet(op), c2 \in CandidateSet(op) :
          Dist(op, c1) # Dist(op, c2)

\* C9: one_match on a prediction that is None substitutes the fallback tree
\* parse("find") and returns a boolean: the result is that of the same call
\* with the fallback tree as prediction.
C9_OneMatchFallback ==
    (Done("one_match") /\ op.ast2 = None /\ ~op.rewrite /\ Len(op.asts) > 0)
        => ret = one_match(op.asts, op.asts, bash_parser("find"),
                           op.ignore_arg_value)

\* C10: local_dist is 0 for every ordered pair of distinct labels among
\* FLAG_-name, FLAG_-iname, FLAG_-regex, FLAG_-iregex, in both modes.
C10_SynonymPairsCostZero ==
    (/\ Done("local_dist") /\ op.s1 # op.s2
     /\ op.s1 \in {"FLAG_" \o f : f \in SynonymFlags}
     /\ op.s2 \in {"FLAG_" \o f : f \in SynonymFlags})
        => ret.value = 0

\* C10 witness: local_dist returned for the pair -iregex, -name.
C10_Witness ==
    /\ Done("local_dist")
    /\ op.s1 = "FLAG_-iregex" /\ op.s2 = "FLAG_-name" /\ ~op.skip_argument

IgnorableLabels == {"FLAG_-ls", "FLAG_-print", "FLAG_-print0"}

SynonymLabels == {"FLAG_" \o f : f \in SynonymFlags}

\* C11: when one label is empty and the other is not, local_dist is 0 if
\* the other label is FLAG_-ls, FLAG_-print or FLAG_-print0 and 1 if it is
\* any other label, whichever of the two arguments is the empty one.
C11_IgnorableSetExact ==
    (Done("local_dist") /\ op.s1 # op.s2 /\ (op.s1 = "" \/ op.s2 = ""))
        => LET other == IF op.s1 = "" THEN op.s2 ELSE op.s1
           IN  ret.value = IF other \in IgnorableLabels THEN 0 ELSE 1

\* C11 witness: local_dist returned 0 for the insertion of FLAG_-print0.
C11_Witness ==
    /\ Done("local_dist")
    /\ op.s1 = "" /\ op.s2 = "FLAG_-print0" /\ ret.value = 0

\* C12: local_dist returns 0 or 1; for two distinct labels that start with
\* ARGUMENT_ it returns 0 when skip_argument is true and 1 when it is false;
\* for a pair that is not equal, not an ignorable flag against the empty
\* label, not two synonym flags and not two arguments in skip mode it
\* returns 1.
C12_ArgumentModeAndDefault ==
    Done("local_dist")
        => LET arguments == /\ StartsWith(op.s1, "ARGUMENT_")
                            /\ StartsWith(op.s2, "ARGUMENT_")
               ignorable == \/ op.s1 = "" /\ op.s2 \in IgnorableLabels
                            \/ op.s2 = "" /\ op.s1 \in IgnorableLabels
               synonyms  == op.s1 \in SynonymLabels /\ op.s2 \in SynonymLabels
           IN  /\ ret.value \in {0, 1}
               /\ (arguments /\ op.s1 # op.s2)
                     => ret.value = IF op.skip_argument THEN 0 ELSE 1
               /\ (/\ op.s1 # op.s2 /\ ~ignorable /\ ~synonyms
                   /\ ~(arguments /\ op.skip_argument))
                     => ret.value = 1

\* C12 witness: local_dist returned 1 for two distinct arguments when
\* skip_argument is false.
C12_Witness ==
    /\ Done("local_dist")
    /\ op.s1 = "ARGUMENT_a" /\ op.s2 = "ARGUMENT_b" /\ ~op.skip_argument
    /\ ret.value = 1

\* C13: the cost table is symmetric: local_dist(a, b, skip) equals
\* local_dist(b, a, skip) for all labels a and b, the empty label included,
\* and both values of skip.
C13_CostSymmetric ==
    Done("local_dist")
        => ret.value = local_dist(op.s2, op.s1, op.skip_argument)

\* C13 witness: local_dist returned 0 for the deletion of FLAG_-ls.
C13_Witness ==
    /\ Done("local_dist")
    /\ op.s1 = "FLAG_-ls" /\ op.s2 = "" /\ ret.value = 0

\* the flags of a tree's command
FlagsOf(ast) == {t \in {"-name", "-iname", "-print"} :
                    \E i \in 1..Len(ast2tokens(ast, FALSE)) :
                        ast2tokens(ast, FALSE)[i] = t}

\* C14: the edit distance of a tree to itself is 0: str_dist(T, T) = 0 and
\* temp_dist(T, T) = 0 for every well-formed tree T.
C14_TedIdentity ==
    ((Done("str_dist") \/ Done("temp_dist")) /\ op.ast1 = op.ast2)
        => ret.value = 0

\* C14 witness: str_dist returned for a tree with an argument and two flags
\* against itself.
C14_Witness ==
    /\ Done("str_dist") /\ op.ast1 = op.ast2
    /\ op.ast1 = bash_parser("find . -name a -print")

\* C15: the edit distance is symmetric: str_dist(T1, T2) = str_dist(T2, T1)
\* and temp_dist(T1, T2) = temp_dist(T2, T1) for all well-formed trees.
C15_TedSymmetric ==
    /\ Done("str_dist") => ret.value = str_dist(op.ast2, op.ast1)
    /\ Done("temp_dist") => ret.value = temp_dist(op.ast2, op.ast1)

\* C15 witness: temp_dist returned a positive distance for two trees of
\* which only the first has the flag -print.
C15_Witness ==
    /\ Done("temp_dist") /\ ret.value > 0
    /\ "-print" \in FlagsOf(op.ast1) /\ "-print" \notin FlagsOf(op.ast2)

\* both templates of a row parse
Grammatical(r) == bash_parser(r[1]) # None /\ bash_parser(r[2]) # None

\* C16: when clean_rewrites has completed, no stored pair has an s1 or an s2
\* that fails to parse, and every pair stored before whose two templates
\* parse is still stored, as many times as before.
C16_PruneInvalid ==
    [][(op'.name = "clean_rewrites" /\ writes' # writes)
          => /\ \A r \in BagToSet(db'["Rewrites"]) : Grammatical(r)
             /\ \A r \in BagToSet(db["Rewrites"]) :
                   Grammatical(r)
                       => CopiesIn(r, db'["Rewrites"]) = CopiesIn(r, db["Rewrites"])]_vars

\* C16 witness: clean_rewrites ran on a store of two rows, one of them with
\* a template that does not parse, and one row is left.
C16_Witness ==
    /\ Done("clean_rewrites")
    /\ writes = <<"add_rewrite", "add_rewrite", "clean_rewrites">>
    /\ BagCardinality(db["Rewrites"]) = 1

\* the template sets extract_rewrites is left with after clustering
Clustered == clusters_of(corpus)

\* the keys of the groups that were not merged away
Surviving == surviving(Clustered.nls, Clustered.merged)

\* C17: after extract_rewrites, for every group that was not merged away and
\* has two templates or more, every ordered pair of distinct templates of
\* the group is stored, however many groups the corpus has.
C17_EveryClusterEmitted ==
    Done("extract_rewrites")
        => \A k \in 1..Len(Surviving) :
              LET cm_temps == Clustered.groups[Surviving[k]]
              IN  Cardinality(cm_temps) >= 2
                      => \A cm_temp1 \in cm_temps, cm_temp2 \in cm_temps :
                            cm_temp1 # cm_temp2
                                => BagIn(<<cm_temp1, cm_temp2>>, db["Rewrites"])

\* C18: each pass of the inner loop visits a pair i < j, the pairs come in
\* the order of the two loops, and when the template sets of group i and
\* group j share two templates or more the pass adds the templates of
\* group i to group j, leaves group i as it is and marks i merged away;
\* otherwise it changes nothing.  A merged-away group emits no row of its
\* own: every row stored comes from a group that is not merged away.
C18_ClusterMerge ==
    [][(op.name = "extract_rewrites" /\ ~Idle(ret))
          => LET n == Len(op.nls)
             IN  IF Idle(ret')
                 THEN \A r \in BagToSet(db'["Rewrites"]) \ BagToSet(db["Rewrites"]) :
                         \E k \in (1..n) \ op.merged :
                            r[1] \in op.groups[op.nls[k]] /\ r[2] \in op.groups[op.nls[k]]
                 ELSE LET nl  == op.nls[op.i]
                          nl2 == op.nls[op.j]
                          cm_temp_set  == op.groups[nl]
                          cm_temp_set2 == op.groups[nl2]
                      IN  /\ 1 <= op.i /\ op.i < op.j /\ op.j <= n
                          /\ <<op'.i, op'.j>> = IF op.j < n THEN <<op.i, op.j + 1>>
                                                ELSE <<op.i + 1, op.i + 2>>
                          /\ IF Cardinality(cm_temp_set \cap cm_temp_set2) >= 2
                             THEN /\ op'.groups[nl2] = cm_temp_set2 \cup cm_temp_set
                                  /\ op'.groups[nl] = cm_temp_set
                                  /\ \A key \in DOMAIN op.groups \ {nl, nl2} :
                                        op'.groups[key] = op.groups[key]
                                  /\ op'.merged = op.merged \cup {op.i}
                             ELSE /\ op'.groups = op.groups
                                  /\ op'.merged = op.merged]_vars

\* C18 witness: the extraction has stored rows after a pass that merged one
\* group into another that had a template of its own.
C18_Witness ==
    /\ Done("extract_rewrites") /\ "groups" \in DOMAIN op
    /\ op.merged # {}
    /\ \E key \in DOMAIN op.groups :
          Cardinality(op.groups[key])
              > Cardinality(group_pairs_by_nl(corpus.nls, corpus.cms)[key])
    /\ BagCardinality(db["Rewrites"]) > 0

\* C19: from an empty store, after any number of extract_rewrites runs the
\* stored relation is symmetric: with (s1, s2) the store holds (s2, s1).
C19_StoredBothWays ==
    \A r \in BagToSet(db["Rewrites"]) : BagIn(<<r[2], r[1]>>, db["Rewrites"])

\* C19 witness: two runs have stored the six rows of a cluster of three.
C19_Witness ==
    /\ Done("extract_rewrites") /\ Len(writes) >= 2
    /\ \E a \in DOMAIN Clustered.groups :
          /\ Cardinality(Clustered.groups[a]) = 3
          /\ \A cm_temp1 \in Clustered.groups[a], cm_temp2 \in Clustered.groups[a] :
                cm_temp1 # cm_temp2 => BagIn(<<cm_temp1, cm_temp2>>, db["Rewrites"])

\* C20: get_rewrites(A) does not raise and returns a set that holds A, no
\* None, a tree with the template s2 for every stored pair (s1, s2) whose s2
\* parses, s1 being the template of A, and no other tree: a target that
\* does not parse is skipped and a template two pairs away gets no tree.
C20_SingleHopExpansion ==
    Done("get_rewrites")
        => LET s1       == ast2template(op.ast, TRUE)
               targets  == {r[2] : r \in {x \in BagToSet(db["Rewrites"]) : x[1] = s1}}
               parsable == {s2 \in targets : bash_parser(s2) # None}
           IN  /\ ret.raised = ""
               /\ op.ast \in ret.value
               /\ None \notin ret.value
               /\ \A s2 \in parsable :
                     \E t \in ret.value : ast2template(t, TRUE) = s2
               /\ \A t \in ret.value \ {op.ast} : ast2template(t, TRUE) \in parsable
               /\ Cardinality(ret.value) <= 1 + Cardinality(parsable)

\* C20 witness: get_rewrites returned two trees for `find . -name a` on a
\* store that holds a target that parses, a target that does not, and a
\* pair that leads on from the first target.
C20_Witness ==
    /\ Done("get_rewrites") /\ op.ast = bash_parser("find . -name a")
    /\ BagIn(<<"find File -name Regex", "locate Regex">>, db["Rewrites"])
    /\ BagIn(<<"find File -name Regex", "find -name">>, db["Rewrites"])
    /\ BagIn(<<"locate Regex", "find File">>, db["Rewrites"])
    /\ ret.value = {op.ast, bash_parser("locate a")}

\* the argument nodes of a tree in document order
ArgumentsOf(ast) == arg_slots(ast)

\* C21: in the tree rewrite(ast, temp) returns, the k-th non-reserved
\* argument node of an argument type, in document order, has the value of
\* the k-th argument of that type of the reference, so no value of the
\* reference is used twice; it keeps the value of the template when the
\* reference has fewer than k arguments of the type.  Nothing else of the
\* tree built from the template changes.
C21_SlotFilling ==
    (Done("rewrite") /\ ret.value.ast2 # 0)
        => LET skeleton == ArgumentsOf(normalize_ast(op.temp))
               filled   == ArgumentsOf(LoadTree(ret.value.heap, ret.value.ast2))
               slots    == ArgumentsOf(LoadTree(op.heap, op.ast))
               Typed(q, arg_type) ==
                   SelectSeq(q, LAMBDA x : x.arg_type = arg_type
                                           /\ x.value \notin ReservedWords)
           IN  /\ ast2template(LoadTree(ret.value.heap, ret.value.ast2), TRUE)
                     = ast2template(normalize_ast(op.temp), TRUE)
               /\ Len(filled) = Len(skeleton)
               /\ \A p \in 1..Len(skeleton) :
                     IF skeleton[p].value \in ReservedWords
                     THEN filled[p].value = skeleton[p].value
                     ELSE LET arg_type == skeleton[p].arg_type
                              k == Len(Typed(SubSeq(skeleton, 1, p), arg_type))
                              from == SelectSeq(slots,
                                          LAMBDA x : x.arg_type = arg_type)
                          IN  filled[p].value = IF k <= Len(from) THEN from[k].value
                                                ELSE skeleton[p].value

\* C21 witness: rewrite filled the two Regex nodes of a template from the
\* two Regex arguments of the reference, in the reference's order.
C21_Witness ==
    /\ Done("rewrite")
    /\ LoadTree(op.heap, op.ast) = bash_parser("find . -name a -iname b")
    /\ op.temp = "locate Regex Regex"
    /\ LoadTree(ret.value.heap, ret.value.ast2) = bash_parser("locate a b")

\* C22: rewrite(ast, temp) and get_rewrites(ast) leave the reference as it
\* was: every object that existed before the call is unchanged after it,
\* so the reference has the same nodes, child order, labels and values.
C22_SourceNotMutated ==
    (Done("rewrite") \/ Done("db.get_rewrites"))
        => /\ \A addr \in 1..Len(op.heap) : ret.value.heap[addr] = op.heap[addr]
           /\ LoadTree(ret.value.heap, op.ast) = LoadTree(op.heap, op.ast)

\* C22 witness: get_rewrites built two trees from a reference with two
\* arguments of one type and filled them.
C22_Witness ==
    /\ Done("db.get_rewrites")
    /\ LoadTree(op.heap, op.ast) = bash_parser("find . -name a -iname b")
    /\ Cardinality(ret.value.rewrites) = 3
    /\ \E rw \in ret.value.rewrites :
          LoadTree(ret.value.heap, rw) = bash_parser("locate a b")

\* the corpus without its degenerate entries: those whose text is empty or
\* "na" in any letter case, or whose command is empty, once stripped
Degenerate(nl, cm) ==
    Strip(nl) = "" \/ Strip(cm) = "" \/ Lower(Strip(nl)) = "na"

WithoutDegenerate(data) ==
    LET lines == [k \in 1..Len(data.nls) |-> <<data.nls[k], data.cms[k]>>]
    IN  CorpusOf(SelectSeq(lines, LAMBDA l : ~Degenerate(l[1], l[2])),
                 data.hash_order)

\* C23: the degenerate entries of the corpus contribute nothing: step 1
\* builds the groups it would build without them, and the run stores the
\* pairs it would store without them.
C23_DegenerateDiscarded ==
    /\ (op.name = "extract_rewrites" /\ op.i = 1 /\ op.j = 2)
          => LET data == WithoutDegenerate(corpus)
             IN  op.groups = group_pairs_by_nl(data.nls, data.cms)
    /\ Done("extract_rewrites")
          => db = extract_rewrites(EmptyStore, WithoutDegenerate(corpus))

\* C23 witness: a run over a corpus with a degenerate entry has stored
\* pairs.
C23_Witness ==
    /\ Done("extract_rewrites")
    /\ \E k \in 1..Len(corpus.nls) :
          /\ Degenerate(corpus.nls[k], corpus.cms[k])
          /\ Strip(corpus.cms[k]) # ""
          /\ Strip(corpus.nls[k]) # ""
    /\ BagCardinality(db["Rewrites"]) > 0

\* the templates step 1 computes for the corpus commands that do not parse
FailedTemplates ==
    {cmd2template(Strip(corpus.cms[k])) :
        k \in {k2 \in 1..Len(corpus.cms) :
                  /\ Strip(corpus.cms[k2]) # ""
                  /\ normalize_ast(Strip(corpus.cms[k2])) = None}}

\* C24: after extract_rewrites, no stored pair has as s1 or s2 the template
\* of a corpus command that failed to parse: the entry was skipped.
C24_ParseFailureSkipped ==
    Done("extract_rewrites")
        => \A r \in BagToSet(db["Rewrites"]) :
              r[1] \notin FailedTemplates /\ r[2] \notin FailedTemplates

\* C25: exist_rewrite and add_rewrite are two statements.  As long as no
\* extraction run has started while another was in its step 4, no pair is
\* stored twice; with two runs interleaved a pair stored twice is reachable
\* (the witness).
C25_SerializedNoDuplicates ==
    ~op.overlapped
        => \A pair \in BagToSet(db["Rewrites"]) :
              CopiesIn(pair, db["Rewrites"]) = 1

\* C25 witness: two interleaved runs have both found a pair missing and
\* both inserted it.
C25_Witness ==
    /\ op.overlapped
    /\ \E pair \in BagToSet(db["Rewrites"]) : CopiesIn(pair, db["Rewrites"]) = 2

\* the groups of step 1 and the keys in the order step 2 enumerates them
Grouped == group_pairs_by_nl(corpus.nls, corpus.cms)

Enumerated == keys_of(Grouped, corpus.hash_order)

\* Scenario C: two groups that share two templates or more, `locate ARG`
\* among them; the group enumerated at place a has `find . -iname ARG`,
\* the other one `find . -name ARG`
ScenarioC(a) ==
    /\ Len(Enumerated) = 2
    /\ a \in 1..2
    /\ LET one   == Grouped[Enumerated[a]]
           other == Grouped[Enumerated[3 - a]]
       IN  /\ Cardinality(one \cap other) >= 2
           /\ cmd2template("locate a") \in one \cap other
           /\ cmd2template("find . -iname a") \in one
           /\ cmd2template("find . -name a") \in other

\* C26: after extract_rewrites on an empty store over a corpus of scenario
\* C, the pair (`find . -iname ARG`, `find . -name ARG`) is stored,
\* whichever of the two groups is enumerated first.
C26_ScenarioC ==
    (Done("extract_rewrites") /\ (ScenarioC(1) \/ ScenarioC(2)))
        => \E r \in RowsFrom(db, "Rewrites", cmd2template("find . -iname a")) :
              r[2] = cmd2template("find . -name a")

\* C26 witness: the run is over with the group of `find . -iname ARG`
\* enumerated first and so merged away, with no template in it that the
\* other group has not.
C26_Witness ==
    /\ Done("extract_rewrites")
    /\ ScenarioC(1)
    /\ cmd2template("find . -iname a") \notin Grouped[Enumerated[2]]
    /\ RowsFrom(db, "Rewrites", cmd2template("find . -iname a")) # {}

\* C27: for a template that contains -print0, ignore_differences gives the
\* same string as for the template with -print in place of -print0: the
\* flag is stripped completely.
C27_Print0Stripped ==
    (Done("ignore_differences")
        /\ \E i \in 1..Len(op.tokens) : op.tokens[i] = "-print0")
        => ret.value
             = ignore_differences(Join(SwapToken(op.tokens, "-print0", "-print")))

\* the forest G is the forest F with childless nodes added, all of them
\* with ignorable labels or all of them with other labels
RECURSIVE WithLeaves(_, _, _)
WithLeaves(F, G, ignorable) ==
    IF Len(G) = 0 THEN Len(F) = 0
    ELSE LET w == G[Len(G)]
         IN  \/ /\ Len(get_children(w)) = 0
                /\ (get_label(w) \in IgnorableLabels) = ignorable
                /\ WithLeaves(F, SubSeq(G, 1, Len(G) - 1), ignorable)
             \/ /\ Len(F) > 0
                /\ get_label(F[Len(F)]) = get_label(w)
                /\ WithLeaves(get_children(F[Len(F)]), get_children(w), ignorable)
                /\ WithLeaves(SubSeq(F, 1, Len(F) - 1),
                              SubSeq(G, 1, Len(G) - 1), ignorable)

\* T2 is T1 with any number of childless FLAG_-ls, FLAG_-print, FLAG_-print0
\* nodes added
PlusIgnorable(T1, T2) == WithLeaves(<<T1>>, <<T2>>, TRUE)

\* T2 is T1 with one childless node of another label added
PlusOneOther(T1, T2) ==
    /\ WithLeaves(<<T1>>, <<T2>>, FALSE)
    /\ NodeCount(<<T2>>) = NodeCount(<<T1>>) + 1

\* C28: when one tree is the other with childless ignorable flag nodes
\* added, str_dist and temp_dist are 0; when it is the other with a single
\* childless node of any other label added, they are 1.
C28_IgnorableFlagsFree ==
    (Done("str_dist") \/ Done("temp_dist"))
        => /\ (PlusIgnorable(op.ast1, op.ast2) \/ PlusIgnorable(op.ast2, op.ast1))
                 => ret.value = 0
           /\ (PlusOneOther(op.ast1, op.ast2) \/ PlusOneOther(op.ast2, op.ast1))
                 => ret.value = 1

\* C28 witness: str_dist returned 0 for a tree and the tree with the three
\* ignorable flags added around its -name flag.
C28_Witness ==
    /\ Done("str_dist")
    /\ op.ast1 = bash_parser("find . -name a")
    /\ \E ast2 \in {bash_parser("find . -ls -name a -print0"),
                    bash_parser("find . -print -name a -ls")} : op.ast2 = ast2
    /\ PlusIgnorable(op.ast1, op.ast2)
    /\ ret.value = 0

\* step 2 of the running extraction is over
Step2Over == op.name = "extract_rewrites" /\ ~Idle(ret) /\ op.j > Len(op.nls)

\* C29: when step 2 is over, every template of every merged-away group is
\* in the template set of a group that is not merged away; every group has
\* the templates step 1 gave it, and the last group in enumeration order is
\* not merged away.
C29_NoTemplateLost ==
    Step2Over
        => LET n     == Len(op.nls)
               alive == (1..n) \ op.merged
           IN  /\ \A i \in op.merged :
                     \A cm_temp \in op.groups[op.nls[i]] :
                        \E k \in alive : cm_temp \in op.groups[op.nls[k]]
               /\ \A key \in DOMAIN Grouped : Grouped[key] \subseteq op.groups[key]
               /\ op.merged \subseteq 1..n
               /\ n > 0 => n \in alive

\* C29 witness: two groups of three were merged away, one of them into a
\* group that was merged away after it.
C29_Witness ==
    /\ Step2Over
    /\ Len(op.nls) = 3
    /\ op.merged = {1, 2}
    /\ ~(Grouped[op.nls[1]] \subseteq Grouped[op.nls[3]])
    /\ op.groups[op.nls[1]] \subseteq op.groups[op.nls[3]]

\* C30: temp_dist is at most str_dist on every candidate and the
\* prediction, and what min_dist returns with ignore_arg_value=True is at
\* most what it returns with ignore_arg_value=False for the same
\* references, prediction and rewrite setting, in whatever order the
\* candidates are visited.
C30_TempAtMostStr ==
    (Done("min_dist") /\ op.ignore_arg_value)
        => /\ \A c \in CandidateSet(op) :
                 temp_dist(c, Compared(op.ast2)) <= str_dist(c, Compared(op.ast2))
           /\ \A ast_rewrites \in Candidates(op.asts, db, op.rewrite) :
                 ret.value <= min_dist(ast_rewrites, op.ast2, FALSE).value

\* C30 witness: min_dist with ignore_arg_value=True returned less than it
\* returns with ignore_arg_value=False, over candidates some of which are
\* rewrites.
C30_Witness ==
    /\ Done("min_dist") /\ op.ignore_arg_value /\ op.rewrite
    /\ CandidateSet(op) \ {op.asts[i] : i \in 1..Len(op.asts)} # {}
    /\ \A ast_rewrites \in Candidates(op.asts, db, op.rewrite) :
          ret.value < min_dist(ast_rewrites, op.ast2, FALSE).value

====
